---- MODULE Spec2Model ----
(***************************************************************************)
(* Model of the cq application: participant registration with balanced     *)
(* article assignment (UserViewSet.create), take creation with milestone   *)
(* seeding (TakeBindMilestoneSerializer.create), milestone renewal         *)
(* (TakeBindMilestoneViewSet.renew_milestone) and the suggestions lookup   *)
(* (TakeBindMilestoneViewSet.suggestions).                                 *)
(*                                                                         *)
(* Rows of a table are the elements of a sequence; a row's primary key is  *)
(* its index.  A queryset without an explicit ordering is iterated in      *)
(* primary-key order.  NULL is the database NULL / Python None.            *)
(*                                                                         *)
(* The tables are those of cq.models, which the source at hand does not    *)
(* hold: their fields are the ones views.py and serializers.py read and    *)
(* write.  A new user has a profile with no article; a milestone's         *)
(* response_at is the time of the request that saves it.  The serializers  *)
(* of Response, Milestone and Take stand in serializers.py inside a string *)
(* literal (lines 123-184); they are modelled as the code they spell.      *)
(***************************************************************************)
EXTENDS Integers, Sequences, FiniteSets, TLC

VARIABLES
    articles,     \* Article table: articles[a] is the research of article a
    profiles,     \* Profile table, one per user: profiles[u] is the article or NULL
    regResult,    \* outcome of the last UserViewSet.create request
    takes,        \* Take table: [article, question, user]
    milestones,   \* Milestone table: [take, user, found, copied_from, response_at]
    responses,    \* Response table: [take, milestone, sentence, user]
    now,          \* the time of the last request that wrote a timestamp
    lastOp,       \* outcome of the last take / milestone request
    pc,           \* interleaved registration: position of each request
    acc,          \* interleaved registration: accumulator of reduce()
    idx,          \* interleaved registration: next article reduce() visits
    uid,          \* interleaved registration: the user each request created
    overlapped    \* interleaved registration: a request began while another ran

vars == <<articles, profiles, regResult, takes, milestones, responses, now,
          lastOp, pc, acc, idx, uid, overlapped>>

NULL == 0

\* ---------------------------------------------------------------- bounds
NumResearch == 2
MaxArticles == 3
MaxUsers == 3
MaxInitProfiles == 2
NumArticles == 2
NumSentences == 3
NumQuestions == 2
NumUsers == 2
MaxTakes == 3
MaxMilestones == 4
ResolveMaxMilestones == 5
RenewalMaxTakes == 2
RenewalMaxMilestones == 3
MaxSentences == 2
MaxTime == 2

Researches == 1..NumResearch
Articles == 1..NumArticles
Questions == 1..NumQuestions
Users == 1..NumUsers
Procs == {1, 2}

\* Sentence table: sentences 1..NumSentences, dealt to the articles in turn;
\* the id NumSentences + 1 resolves to no Sentence.
Sentences == 1..NumSentences
SentenceArticle(s) == ((s - 1) % NumArticles) + 1
SentenceIds == 1..(NumSentences + 1)

RECURSIVE SeqsUpTo(_, _)
SeqsUpTo(S, n) ==
    IF n = 0 THEN {<<>>}
    ELSE LET shorter == SeqsUpTo(S, n - 1)
         IN shorter \cup {Append(q, x) : q \in {r \in shorter : Len(r) = n - 1}, x \in S}

Ids(table) == [i \in 1..Len(table) |-> i]

\* ------------------------------------------------- assignment balancer
ArticlesOf(research) ==
    SelectSeq(Ids(articles), LAMBDA a : articles[a] = research)

ProfileCount(a) == Cardinality({u \in 1..Len(profiles) : profiles[u] = a})

\* The comparison with >=: a later article replaces an equal one.
FewerOrEqual(x, y) == IF ProfileCount(x) >= ProfileCount(y) THEN y ELSE x

\* The comparison with <: the fold keeps the larger count.
FewerReversed(x, y) == IF ProfileCount(x) < ProfileCount(y) THEN y ELSE x

\* lambda x, y: y if x.profiles.count() > y.profiles.count() else x
Fewer(x, y) == IF ProfileCount(x) > ProfileCount(y) THEN y ELSE x

RECURSIVE ReduceFewer(_, _)
ReduceFewer(x, rest) ==
    IF Len(rest) = 0 THEN x ELSE ReduceFewer(Fewer(x, Head(rest)), Tail(rest))

\* reduce() given an initial value of None: an empty queryset yields None.
TargetArticleDefault(arts) ==
    IF Len(arts) = 0
    THEN [raised |-> FALSE, value |-> NULL]
    ELSE [raised |-> FALSE, value |-> ReduceFewer(Head(arts), Tail(arts))]

\* reduce(lambda x, y: ..., articles): no initial value, so an empty queryset
\* raises TypeError.
TargetArticle(arts) ==
    IF Len(arts) = 0
    THEN [raised |-> TRUE, value |-> NULL]
    ELSE [raised |-> FALSE, value |-> ReduceFewer(Head(arts), Tail(arts))]

NoRegistration == [status |-> "none", user |-> NULL, research |-> NULL, article |-> NULL]

CreateArticle(research) ==
    /\ Len(articles) < MaxArticles
    /\ articles' = Append(articles, research)
    /\ UNCHANGED <<profiles, regResult, takes, milestones, responses, now, lastOp,
                   pc, acc, idx, uid, overlapped>>

\* The whole handler.  serializer.save() creates the user and its profile
\* (article NULL) before the balancer runs, so a request that raises in
\* reduce() leaves the user behind with an unlinked profile.
Register(research_id, valid) ==
    /\ Len(profiles) < MaxUsers
    /\ LET user == Len(profiles) + 1
           target == TargetArticle(ArticlesOf(research_id))
       IN IF research_id \notin Researches
          THEN /\ regResult' = [status |-> "400", user |-> NULL,
                                research |-> research_id, article |-> NULL]
               /\ UNCHANGED profiles
          ELSE IF ~valid
          THEN /\ regResult' = [status |-> "ValidationError", user |-> NULL,
                                research |-> research_id, article |-> NULL]
               /\ UNCHANGED profiles
          ELSE IF target.raised
          THEN /\ profiles' = Append(profiles, NULL)
               /\ regResult' = [status |-> "TypeError", user |-> user,
                                research |-> research_id, article |-> NULL]
          ELSE /\ profiles' = Append(profiles, target.value)
               /\ regResult' = [status |-> "ok", user |-> user,
                                research |-> research_id, article |-> target.value]
    /\ UNCHANGED <<articles, takes, milestones, responses, now, lastOp,
                   pc, acc, idx, uid, overlapped>>

NoOp == [op |-> "none", status |-> "none", user |-> NULL, take |-> NULL,
         milestone |-> NULL, source |-> NULL, sentences |-> <<>>]

InitAssign ==
    /\ articles = <<>>
    /\ profiles = <<>>
    /\ regResult = NoRegistration
    /\ takes = <<>>
    /\ milestones = <<>>
    /\ responses = <<>>
    /\ now = 1
    /\ lastOp = NoOp
    /\ pc = [p \in Procs |-> "idle"]
    /\ acc = [p \in Procs |-> NULL]
    /\ idx = [p \in Procs |-> 1]
    /\ uid = [p \in Procs |-> NULL]
    /\ overlapped = FALSE

NextAssign ==
    \/ \E r \in Researches : CreateArticle(r)
    \/ \E r \in 0..(NumResearch + 1), valid \in BOOLEAN : Register(r, valid)

SpecAssign == InitAssign /\ [][NextAssign]_vars

\* ------------------------------------- registration, requests interleaved
\* Two UserViewSet.create requests for research 1 served by concurrent
\* workers.  Nothing in the handler takes a lock or opens a transaction, so
\* its database queries interleave with those of the other request: the
\* INSERT of the user and profile, each x.profiles.count() > y.profiles.count()
\* comparison of reduce(), and the UPDATE of the profile are separate steps.
Other(p) == CHOOSE q \in Procs : q # p

RaceBegin(p) ==
    /\ pc[p] = "idle"
    /\ profiles' = Append(profiles, NULL)
    /\ uid' = [uid EXCEPT ![p] = Len(profiles) + 1]
    /\ pc' = [pc EXCEPT ![p] = "reduce"]
    /\ overlapped' = (overlapped \/ pc[Other(p)] \in {"reduce", "save"})
    /\ UNCHANGED <<articles, regResult, takes, milestones, responses, now, lastOp,
                   acc, idx>>

\* One step of reduce() over Article.objects.filter(research=research).
RaceFold(p) ==
    /\ pc[p] = "reduce"
    /\ LET arts == ArticlesOf(1)
       IN IF Len(arts) = 0
          THEN /\ pc' = [pc EXCEPT ![p] = "TypeError"]
               /\ UNCHANGED <<acc, idx>>
          ELSE IF acc[p] = NULL
          THEN /\ acc' = [acc EXCEPT ![p] = arts[1]]
               /\ idx' = [idx EXCEPT ![p] = 2]
               /\ pc' = [pc EXCEPT ![p] = IF Len(arts) = 1 THEN "save" ELSE "reduce"]
          ELSE /\ acc' = [acc EXCEPT ![p] = Fewer(acc[p], arts[idx[p]])]
               /\ idx' = [idx EXCEPT ![p] = idx[p] + 1]
               /\ pc' = [pc EXCEPT ![p] = IF idx[p] = Len(arts) THEN "save" ELSE "reduce"]
    /\ UNCHANGED <<articles, profiles, regResult, takes, milestones, responses, now,
                   lastOp, uid, overlapped>>

RaceSave(p) ==
    /\ pc[p] = "save"
    /\ profiles' = [profiles EXCEPT ![uid[p]] = acc[p]]
    /\ pc' = [pc EXCEPT ![p] = "done"]
    /\ UNCHANGED <<articles, regResult, takes, milestones, responses, now, lastOp,
                   acc, idx, uid, overlapped>>

\* Research 1 holds every article; some participants are already assigned.
InitRace ==
    /\ articles \in {[a \in 1..n |-> 1] : n \in 0..MaxArticles}
    /\ profiles \in UNION {[1..k -> 1..Len(articles)] : k \in 0..MaxInitProfiles}
    /\ regResult = NoRegistration
    /\ takes = <<>>
    /\ milestones = <<>>
    /\ responses = <<>>
    /\ now = 1
    /\ lastOp = NoOp
    /\ pc = [p \in Procs |-> "idle"]
    /\ acc = [p \in Procs |-> NULL]
    /\ idx = [p \in Procs |-> 1]
    /\ uid = [p \in Procs |-> NULL]
    /\ overlapped = FALSE

NextRace ==
    \/ \E p \in Procs : RaceBegin(p)
    \/ \E p \in Procs : RaceFold(p)
    \/ \E p \in Procs : RaceSave(p)

SpecRace == InitRace /\ [][NextRace]_vars

\* --------------------------------------------------- takes and milestones
\* x.milestones and milestone.responses: the related rows, in primary-key order.
MilestonesOf(t) == SelectSeq(Ids(milestones), LAMBDA m : milestones[m].take = t)

ResponsesOf(m) == SelectSeq(Ids(responses), LAMBDA r : responses[r].milestone = m)

\* itertools.chain.from_iterable
RECURSIVE Chain(_)
Chain(lists) == IF Len(lists) = 0 THEN <<>> ELSE Head(lists) \o Chain(Tail(lists))

\* The comparison with <=: a later milestone replaces an equal one.
LaterOrEqual(x, y) ==
    IF milestones[x].response_at <= milestones[y].response_at THEN y ELSE x

\* lambda x, y: y if x.response_at < y.response_at else x
Later(x, y) ==
    IF milestones[x].response_at < milestones[y].response_at THEN y ELSE x

RECURSIVE ReduceLater(_, _)
ReduceLater(x, rest) ==
    IF Len(rest) = 0 THEN x ELSE ReduceLater(Later(x, Head(rest)), Tail(rest))

LatestMilestone(milestones_flatten) ==
    IF Len(milestones_flatten) = 0
    THEN NULL
    ELSE ReduceLater(Head(milestones_flatten), Tail(milestones_flatten))

\* The query without .filter(question=take.question).
SuggestionRelatedAnyQuestion(ref, t) == takes[t].article # takes[ref].article

\* Take.objects.exclude(article=take.article).filter(question=take.question)
SuggestionRelated(ref, t) ==
    /\ takes[t].article # takes[ref].article
    /\ takes[t].question = takes[ref].question

\* .filter(copied_from=None).exclude(found=None).exclude(responses=None)
SuggestionEligible(m) ==
    /\ milestones[m].copied_from = NULL
    /\ milestones[m].found # NULL
    /\ Len(ResponsesOf(m)) > 0

SuggestionMilestones(ref) ==
    LET query_set == SelectSeq(Ids(takes), LAMBDA t : SuggestionRelated(ref, t))
    IN Chain([i \in 1..Len(query_set) |->
                SelectSeq(MilestonesOf(query_set[i]), SuggestionEligible)])

\* The query of the suggestions endpoint: .exclude(article=...).
SeedRelatedOtherArticle(article, question, t) ==
    /\ takes[t].article # article
    /\ takes[t].question = question

\* Take.objects.filter(article=...).filter(question=...)
SeedRelated(article, question, t) ==
    /\ takes[t].article = article
    /\ takes[t].question = question

\* .filter(copied_from=None).exclude(found=None)
SeedEligible(m) ==
    /\ milestones[m].copied_from = NULL
    /\ milestones[m].found # NULL

SeedMilestones(article, question) ==
    LET query_set == SelectSeq(Ids(takes), LAMBDA t : SeedRelated(article, question, t))
    IN Chain([i \in 1..Len(query_set) |->
                SelectSeq(MilestonesOf(query_set[i]), SeedEligible)])

\* The loop without response.pk = None: save() updates the source's rows.
SeedResponsesMoved(latest, milestone, user) ==
    [r \in 1..Len(responses) |->
        IF responses[r].milestone = latest
        THEN [responses[r] EXCEPT !.milestone = milestone, !.user = user]
        ELSE responses[r]]

\* for response in latest_milestone.responses.all(): pk = None, milestone and
\* user replaced, save(): one new row per row of the source, in its order.
SeedResponses(latest, milestone, user) ==
    LET src == ResponsesOf(latest)
    IN responses \o [i \in 1..Len(src) |->
                       [responses[src[i]] EXCEPT !.milestone = milestone, !.user = user]]

\* `at` is the time the request is served: the value of every timestamp it
\* writes.
CreateTake(user, article, question, at) ==
    /\ at >= now
    /\ now' = at
    /\ LET latest_milestone == LatestMilestone(SeedMilestones(article, question))
           take == Len(takes) + 1
           milestone == Len(milestones) + 1
       IN /\ takes' = Append(takes, [article |-> article, question |-> question,
                                      user |-> user])
          /\ IF latest_milestone # NULL
             THEN /\ milestones' = Append(milestones,
                        [take |-> take, user |-> user,
                         found |-> milestones[latest_milestone].found,
                         copied_from |-> latest_milestone, response_at |-> at])
                  /\ responses' = SeedResponses(latest_milestone, milestone, user)
             ELSE /\ milestones' = Append(milestones,
                        [take |-> take, user |-> user, found |-> NULL,
                         copied_from |-> NULL, response_at |-> at])
                  /\ UNCHANGED responses
          /\ lastOp' = [op |-> "create", status |-> "ok", user |-> user,
                        take |-> take, milestone |-> milestone,
                        source |-> latest_milestone, sentences |-> <<>>]
    /\ UNCHANGED <<articles, profiles, regResult, pc, acc, idx, uid, overlapped>>

\* ResponseSerializer is a ModelSerializer: its sentence field is a primary
\* key field over Sentence.objects.all(), valid iff the row exists.
SentenceValid(take, sentence_id) == sentence_id \in Sentences

\* response_form built from the distinct ids only.
RenewResponsesDistinct(take, milestone, user, sentences) ==
    LET firsts == SelectSeq(Ids(sentences),
                            LAMBDA i : \A j \in 1..(i - 1) : sentences[j] # sentences[i])
    IN [i \in 1..Len(firsts) |->
          [take |-> take, milestone |-> milestone, sentence |-> sentences[firsts[i]],
           user |-> user]]

\* response_form, saved by ResponseSerializer(many=True).save(user=...)
RenewResponses(take, milestone, user, sentences) ==
    [i \in 1..Len(sentences) |->
        [take |-> take, milestone |-> milestone, sentence |-> sentences[i],
         user |-> user]]

\* request.data, less 'sentences' and with take set, is the data of the
\* MileStoneSerializer: found and copied_from are the request's.  The
\* milestone is saved before the responses are validated.
RenewMilestone(user, take, sentences, found, copied_from, at) ==
    /\ take \in 1..Len(takes)
    /\ at >= now
    /\ now' = at
    /\ LET milestone == Len(milestones) + 1
       IN /\ milestones' = Append(milestones,
                [take |-> take, user |-> user, found |-> found,
                 copied_from |-> copied_from, response_at |-> at])
          /\ IF \A i \in 1..Len(sentences) : SentenceValid(take, sentences[i])
             THEN /\ responses' = responses \o
                                     RenewResponses(take, milestone, user, sentences)
                  /\ lastOp' = [op |-> "renew", status |-> "ok", user |-> user,
                                take |-> take, milestone |-> milestone,
                                source |-> NULL, sentences |-> sentences]
             ELSE /\ UNCHANGED responses
                  /\ lastOp' = [op |-> "renew", status |-> "ValidationError",
                                user |-> user, take |-> take, milestone |-> milestone,
                                source |-> NULL, sentences |-> sentences]
    /\ UNCHANGED <<articles, profiles, regResult, takes, pc, acc, idx, uid,
                   overlapped>>

\* The milestone the suggestions endpoint selects, and the responses it
\* returns.  The handler writes nothing.
SuggestionsLatest(take) == LatestMilestone(SuggestionMilestones(take))

SuggestionsReply(take) ==
    LET latest_milestone == SuggestionsLatest(take)
    IN IF latest_milestone = NULL THEN <<>> ELSE ResponsesOf(latest_milestone)

Suggestions(take) ==
    /\ take \in 1..Len(takes)
    /\ SuggestionsReply(take) \in Seq(1..Len(responses))
    /\ UNCHANGED vars

Init ==
    /\ articles = [a \in Articles |-> 1]
    /\ profiles = <<>>
    /\ regResult = NoRegistration
    /\ takes = <<>>
    /\ milestones = <<>>
    /\ responses = <<>>
    /\ now = 1
    /\ lastOp = NoOp
    /\ pc = [p \in Procs |-> "idle"]
    /\ acc = [p \in Procs |-> NULL]
    /\ idx = [p \in Procs |-> 1]
    /\ uid = [p \in Procs |-> NULL]
    /\ overlapped = FALSE

\* The milestone a take's client currently shows: the take's newest.
CurrentMilestone(take) ==
    LET ms == MilestonesOf(take) IN IF Len(ms) = 0 THEN NULL ELSE ms[Len(ms)]

\* Time does not run backwards between requests.
Times == {t \in now..(now + 1) : t <= MaxTime}

\* Requests of the seeding specification.  Any user creates a take for any
\* article and question; a take is renewed by the user who created it, with
\* no highlight or two, found unset or set to the time of the request, and
\* copied_from unset or naming the milestone the take currently shows.
SeedingSentences == {<<>>, <<3, 1>>}

SeedingCreate ==
    /\ Len(takes) < MaxTakes
    /\ Len(milestones) < MaxMilestones
    /\ \E u \in Users, a \in Articles, q \in Questions, at \in Times :
          CreateTake(u, a, q, at)

SeedingRenew ==
    /\ Len(milestones) < MaxMilestones
    /\ \E t \in 1..Len(takes), ss \in SeedingSentences, at \in Times :
          \E f \in {NULL, at}, c \in {NULL, CurrentMilestone(t)} :
              RenewMilestone(takes[t].user, t, ss, f, c, at)

SeedingSuggest == \E t \in 1..Len(takes) : Suggestions(t)

Next ==
    \/ SeedingCreate
    \/ SeedingRenew
    \/ SeedingSuggest

Spec == Init /\ [][Next]_vars

\* Requests of the resolver specification: one user works every take, a
\* renewal carries no highlight or one and no copied_from.
ResolveSentences == {<<>>, <<1>>}

ResolveCreate ==
    /\ Len(takes) < MaxTakes
    /\ Len(milestones) < ResolveMaxMilestones
    /\ \E a \in Articles, q \in Questions, at \in Times : CreateTake(1, a, q, at)

ResolveRenew ==
    /\ Len(milestones) < ResolveMaxMilestones
    /\ \E t \in 1..Len(takes), ss \in ResolveSentences, at \in Times :
          \E f \in {NULL, at} : RenewMilestone(1, t, ss, f, NULL, at)

ResolveSuggest == \E t \in 1..Len(takes) : Suggestions(t)

NextResolve ==
    \/ ResolveCreate
    \/ ResolveRenew
    \/ ResolveSuggest

SpecResolve == Init /\ [][NextResolve]_vars

\* Requests of the renewal specification: any user renews any take with any
\* sequence of at most MaxSentences sentence ids, among them the id of no
\* Sentence and the ids of sentences of other articles.
RenewalCreate ==
    /\ Len(takes) < RenewalMaxTakes
    /\ Len(milestones) < RenewalMaxMilestones
    /\ \E u \in Users, a \in Articles, at \in Times : CreateTake(u, a, 1, at)

RenewalRenew ==
    /\ Len(milestones) < RenewalMaxMilestones
    /\ \E u \in Users, t \in 1..Len(takes),
          ss \in SeqsUpTo(SentenceIds, MaxSentences), at \in Times :
          \E f \in {NULL, at} : RenewMilestone(u, t, ss, f, NULL, at)

NextRenewal ==
    \/ RenewalCreate
    \/ RenewalRenew

SpecRenewal == Init /\ [][NextRenewal]_vars

\* -------------------------------------------------------- properties
\* The step is a registration request that got past validation.
Registered == regResult' # regResult /\ regResult'.user # NULL

\* C1: a registration against a research with at least one article succeeds
\* and links the new profile to an article of that research whose profile
\* count (before the link) is the minimum over the research's articles, the
\* first such article in iteration order.
C1_BalancedAssign ==
    [][(Registered /\ Len(ArticlesOf(regResult'.research)) > 0) =>
        LET a == regResult'.article
            r == regResult'.research
        IN /\ regResult'.status = "ok"
           /\ a \in 1..Len(articles)
           /\ articles[a] = r
           /\ \A b \in 1..Len(articles) :
                 articles[b] = r => ProfileCount(a) <= ProfileCount(b)
           /\ \A b \in 1..(a - 1) :
                 articles[b] = r => ProfileCount(a) < ProfileCount(b)
           /\ profiles' = Append(profiles, a)]_vars

\* A registration chose an article that is not the first of its research and
\* that tied for the minimum with a later article.
C1_Witness ==
    /\ regResult.status = "ok"
    /\ regResult.user = Len(profiles)
    /\ \E c \in 1..(regResult.article - 1) : articles[c] = regResult.research
    /\ \E b \in (regResult.article + 1)..Len(articles) :
          /\ articles[b] = regResult.research
          /\ ProfileCount(b) + 1 = ProfileCount(regResult.article)

\* C8: a registration against an existing research with no article fails
\* with the error reduce() raises on an empty sequence, and the profile of
\* the user it created is linked to no article.
C8_EmptyResearchFails ==
    [][(Registered /\ Len(ArticlesOf(regResult'.research)) = 0) =>
        /\ regResult'.status = "TypeError"
        /\ regResult'.article = NULL
        /\ profiles' = Append(profiles, NULL)]_vars

C8_Witness ==
    /\ regResult.status = "TypeError"
    /\ regResult.research \in Researches
    /\ Len(ArticlesOf(regResult.research)) = 0
    /\ profiles[regResult.user] = NULL
    /\ \E a \in 1..Len(articles) : articles[a] # regResult.research

\* The profiles that existed before either interleaved request began.
RaceOld == {u \in 1..Len(profiles) : u \notin {uid[p] : p \in Procs}}
RaceInitCount(a) == Cardinality({u \in RaceOld : profiles[u] = a})
RaceEqualStart ==
    /\ Len(articles) >= 2
    /\ \A a, b \in 1..Len(articles) : RaceInitCount(a) = RaceInitCount(b)
RaceDone == \A p \in Procs : pc[p] = "done"
RaceSkew ==
    CHOOSE d \in 0..(MaxInitProfiles + 2) :
        /\ \E a, b \in 1..Len(articles) : ProfileCount(a) - ProfileCount(b) = d
        /\ \A a, b \in 1..Len(articles) : ProfileCount(a) - ProfileCount(b) <= d

\* C9: from an all-equal start with at least two articles, two registrations
\* that run one after the other end on different articles (skew at most 1);
\* ending on the same article (skew 2), which interleaved registrations
\* reach, happens only when one request began while the other was running.
C9_SkewOnlyByInterleaving ==
    (RaceDone /\ RaceEqualStart /\ ~overlapped) =>
        /\ profiles[uid[1]] # profiles[uid[2]]
        /\ RaceSkew <= 1

\* Both interleaved requests read the counts before either saved and were
\* assigned the same article: the counts now differ by 2.
C9_Witness ==
    /\ RaceDone
    /\ RaceEqualStart
    /\ overlapped
    /\ profiles[uid[1]] = profiles[uid[2]]
    /\ RaceSkew = 2

MilestoneIds == 1..Len(milestones)
HasResponse(m) == \E r \in 1..Len(responses) : responses[r].milestone = m

\* Milestone m is on a take with the question of take ref and another article.
OnSibling(ref, m) ==
    /\ takes[milestones[m].take].question = takes[ref].question
    /\ takes[milestones[m].take].article # takes[ref].article

Complete(m) ==
    /\ milestones[m].copied_from = NULL
    /\ milestones[m].found # NULL
    /\ HasResponse(m)

\* Iteration visits the takes in order, and within a take its milestones.
EncounteredBefore(a, b) ==
    \/ milestones[a].take < milestones[b].take
    \/ milestones[a].take = milestones[b].take /\ a < b

\* C2: for every reference take the suggestions endpoint selects, among the
\* eligible milestones of its sibling takes, one with the greatest
\* response_at, the first encountered of those; with no eligible milestone it
\* selects none and returns no response.
C2_LatestEligibleSelected ==
    \A ref \in 1..Len(takes) :
        LET eligible == {m \in MilestoneIds : OnSibling(ref, m) /\ Complete(m)}
            selected == SuggestionsLatest(ref)
        IN IF eligible = {}
           THEN selected = NULL /\ SuggestionsReply(ref) = <<>>
           ELSE /\ selected \in eligible
                /\ \A m \in eligible :
                     /\ milestones[m].response_at <= milestones[selected].response_at
                     /\ (m # selected /\ milestones[m].response_at =
                                          milestones[selected].response_at)
                            => EncounteredBefore(selected, m)
                /\ Len(SuggestionsReply(ref)) > 0
                /\ \A i \in 1..Len(SuggestionsReply(ref)) :
                     responses[SuggestionsReply(ref)[i]].milestone = selected

\* Two eligible milestones of different takes tie for the greatest
\* response_at, and the selected one is the newer row of the earlier take.
C2_Witness ==
    \E ref \in 1..Len(takes), m \in MilestoneIds :
        LET selected == SuggestionsLatest(ref)
        IN /\ selected # NULL
           /\ OnSibling(ref, m) /\ Complete(m)
           /\ milestones[m].response_at = milestones[selected].response_at
           /\ milestones[m].take > milestones[selected].take
           /\ m < selected

\* C3: a milestone the suggestions endpoint selects has copied_from null,
\* found non-null and at least one response, and is on a take with the
\* reference take's question and another article.
C3_SelectedIsEligible ==
    \A ref \in 1..Len(takes) :
        LET selected == SuggestionsLatest(ref)
        IN selected # NULL =>
            /\ selected \in MilestoneIds
            /\ milestones[selected].copied_from = NULL
            /\ milestones[selected].found # NULL
            /\ HasResponse(selected)
            /\ takes[milestones[selected].take].question = takes[ref].question
            /\ takes[milestones[selected].take].article # takes[ref].article

\* A milestone is selected although a copy and a milestone without found,
\* both with responses and on sibling takes, have a later response_at.
C3_Witness ==
    \E ref \in 1..Len(takes) :
        LET selected == SuggestionsLatest(ref)
        IN /\ selected # NULL
           /\ \E m \in MilestoneIds :
                /\ milestones[m].copied_from # NULL
                /\ HasResponse(m)
                /\ OnSibling(ref, m)
                /\ milestones[m].response_at > milestones[selected].response_at
           /\ \E m \in MilestoneIds :
                /\ milestones[m].found = NULL
                /\ HasResponse(m)
                /\ OnSibling(ref, m)
                /\ milestones[m].response_at > milestones[selected].response_at

\* The step creates a take, or renews a milestone.
CreateStep == Len(takes') = Len(takes) + 1
RenewStep == takes' = takes /\ Len(milestones') = Len(milestones) + 1

\* Milestone m is a seeding candidate for article a and question q.
SeedCandidate(a, q, m) ==
    /\ takes[milestones[m].take].article = a
    /\ takes[milestones[m].take].question = q
    /\ milestones[m].copied_from = NULL
    /\ milestones[m].found # NULL

\* C4 as stated: the take just created was seeded from the milestone the
\* suggestions endpoint selects for it, and got an empty milestone exactly
\* when the endpoint selects none.
C4_SeedsAsResolver ==
    lastOp.op = "create" =>
        /\ milestones[lastOp.milestone].copied_from = SuggestionsLatest(lastOp.take)
        /\ lastOp.source = SuggestionsLatest(lastOp.take)

\* C4 amended: the take just created for article a and question q was seeded
\* from a milestone of a take with the same article and the same question
\* that has copied_from null and found non-null (responses or not), the one
\* with the greatest response_at and the first encountered of those; it got
\* an empty milestone exactly when there is no such milestone.
C4_SeedsFromSameArticle ==
    lastOp.op = "create" =>
        LET new == lastOp.milestone
            a == takes[lastOp.take].article
            q == takes[lastOp.take].question
            source == milestones[new].copied_from
            candidates == {m \in MilestoneIds : SeedCandidate(a, q, m)}
        IN /\ milestones[new].take = lastOp.take
           /\ IF candidates = {}
              THEN /\ source = NULL
                   /\ milestones[new].found = NULL
                   /\ ~HasResponse(new)
              ELSE /\ source \in candidates
                   /\ \A m \in candidates :
                        /\ milestones[m].response_at <= milestones[source].response_at
                        /\ (m # source /\ milestones[m].response_at =
                                           milestones[source].response_at)
                               => EncounteredBefore(source, m)

\* A take was seeded from a milestone without responses of another user's
\* take with its own article, for which the suggestions endpoint selects
\* nothing.
C4_Witness ==
    /\ lastOp.op = "create"
    /\ lastOp.source # NULL
    /\ milestones[lastOp.milestone].copied_from = lastOp.source
    /\ ~HasResponse(lastOp.source)
    /\ takes[milestones[lastOp.source].take].article = takes[lastOp.take].article
    /\ milestones[lastOp.source].user # lastOp.user
    /\ SuggestionsLatest(lastOp.take) = NULL

SentencesOf(table, m) ==
    LET rows == SelectSeq(table, LAMBDA r : r.milestone = m)
    IN [i \in 1..Len(rows) |-> rows[i].sentence]

\* C5: a take creation that finds a source milestone gives the new milestone
\* the source as copied_from and the source's found, and one new response
\* per response of the source, with the same sentences in the same order,
\* owned by the new milestone and the creating user; the rows that existed,
\* the source's among them, are unchanged.
C5_SeedCopiesResponses ==
    [][(CreateStep /\ lastOp'.source # NULL) =>
        LET source == lastOp'.source
            new == lastOp'.milestone
            old == Len(responses)
        IN /\ new = Len(milestones) + 1
           /\ source \in MilestoneIds
           /\ milestones'[new].copied_from = source
           /\ milestones'[new].found = milestones[source].found
           /\ milestones'[new].user = lastOp'.user
           /\ SubSeq(milestones', 1, Len(milestones)) = milestones
           /\ SubSeq(responses', 1, old) = responses
           /\ SentencesOf(responses', new) = SentencesOf(responses, source)
           /\ SentencesOf(responses', source) = SentencesOf(responses, source)
           /\ \A r \in 1..Len(responses') :
                responses'[r].milestone = new =>
                    r > old /\ responses'[r].user = lastOp'.user]_vars

\* A user seeded a take from another user's milestone with two responses,
\* after the source's found time.
C5_Witness ==
    /\ lastOp.op = "create"
    /\ lastOp.source # NULL
    /\ SentencesOf(responses, lastOp.source) = <<3, 1>>
    /\ SentencesOf(responses, lastOp.milestone) = <<3, 1>>
    /\ milestones[lastOp.source].user # lastOp.user
    /\ milestones[lastOp.milestone].response_at > milestones[lastOp.source].found

\* C10 as stated: the source of every copy is no copy itself, and a take just
\* created by seeding has exactly one milestone.
C10_NoCopyOfCopy ==
    /\ \A m \in MilestoneIds :
         milestones[m].copied_from # NULL =>
             milestones[milestones[m].copied_from].copied_from = NULL
    /\ lastOp.op = "create" =>
         Cardinality({m \in MilestoneIds : milestones[m].take = lastOp.take}) = 1

\* Every id of the sequence is a Sentence of the article of take t.
OfTakeArticle(t, sentences) ==
    \A i \in 1..Len(sentences) :
        /\ sentences[i] \in Sentences
        /\ SentenceArticle(sentences[i]) = takes[t].article

\* C6: a renewal of a take with sentence ids of the take's article succeeds,
\* creates one milestone of that take and the requesting user, and one
\* response per element of the sequence, in its order and with its
\* duplicates, each of the new milestone and the user (none for the empty
\* sequence); the milestones and responses that existed are unchanged.
C6_RenewCreatesInOrder ==
    [][(RenewStep /\ OfTakeArticle(lastOp'.take, lastOp'.sentences)) =>
        LET sentences == lastOp'.sentences
            new == Len(milestones) + 1
            old == Len(responses)
        IN /\ lastOp'.status = "ok"
           /\ lastOp'.milestone = new
           /\ milestones'[new].take = lastOp'.take
           /\ milestones'[new].user = lastOp'.user
           /\ SubSeq(milestones', 1, Len(milestones)) = milestones
           /\ Len(responses') = old + Len(sentences)
           /\ SubSeq(responses', 1, old) = responses
           /\ \A i \in 1..Len(sentences) :
                responses'[old + i] =
                    [take |-> lastOp'.take, milestone |-> new,
                     sentence |-> sentences[i], user |-> lastOp'.user]]_vars

\* A user renewed another user's take with two sentences of its article in
\* descending id order, when other responses existed.
C6_Witness ==
    /\ lastOp.op = "renew"
    /\ lastOp.status = "ok"
    /\ Len(lastOp.sentences) = 2
    /\ lastOp.sentences[1] > lastOp.sentences[2]
    /\ OfTakeArticle(lastOp.take, lastOp.sentences)
    /\ lastOp.user # takes[lastOp.take].user
    /\ SentencesOf(responses, lastOp.milestone) = lastOp.sentences
    /\ Len(responses) > Len(lastOp.sentences)

\* C7 as stated: a renewal given an id that is no Sentence of the take's
\* article fails with a ValidationError and creates no response.
C7_ForeignSentenceRejected ==
    (lastOp.op = "renew" /\ ~OfTakeArticle(lastOp.take, lastOp.sentences)) =>
        /\ lastOp.status = "ValidationError"
        /\ ~HasResponse(lastOp.milestone)

====
